---- MODULE Spec2Model ----
(***************************************************************************)
(* download_site.py: the incremental, concurrent sitemap downloader.       *)
(* main() loads the run marker, fetches and parses the sitemap, submits    *)
(* one process_entry task per entry to a thread pool, consumes the         *)
(* results as they complete and then writes the run marker and the URL     *)
(* mapping.  Timestamps are integers (one unit = one hour).                *)
(***************************************************************************)
EXTENDS Integers, Sequences, FiniteSets, TLC

\* ------------------------------------------------------------- bounds
MaxEntries == 2     \* longest sitemap the model parses
MaxRetries == 2     \* largest --retries
MaxWorkers == 2     \* largest --workers
MaxWall    == 2     \* latest wall-clock reading of a <lastmod>
MaxLastRun == 1     \* latest stored last_run_time
MaxLimit   == 1     \* largest --limit

\* ------------------------------------------------------------- values
URLs == {"http://a/1", "http://a/2"}

\* Optional[float]: <<>> is None, <<t>> is the number t.
NoneVal == <<>>
Some(t) == <<t>>

\* Python truthiness of an Optional[float]: None and 0 are falsy.
TruthyNum(x) == x # NoneVal /\ x[1] # 0

\* A <lastmod>: absent (None), text that strptime rejects, or a timestamp
\* text "wall-clock fields + UTC offset".
NoLastmod  == [kind |-> "none", wall |-> 0, off |-> 0]
BadLastmod == [kind |-> "bad",  wall |-> 0, off |-> 0]
Stamp(w, o) == [kind |-> "ts", wall |-> w, off |-> o]
Offsets == {-1, 0, 1}
Lastmods == {NoLastmod, BadLastmod} \cup {Stamp(w, o) : w \in 0..MaxWall, o \in Offsets}

\* Python truthiness of Optional[str] lastmod (line 101).
TruthyStr(lm) == lm.kind # "none"

\* time.strptime(lastmod, '%Y-%m-%dT%H:%M:%S%z') raises unless the text matches.
strptime_ok(lm) == lm.kind = "ts"

\* time.mktime(struct_time): the wall-clock fields read as LOCAL time; the
\* parsed tm_gmtoff is ignored.  tz is time.timezone (hours west of UTC).
mktime(lm, tz) == lm.wall + tz

\* hashlib.md5(url.encode('utf-8')).hexdigest() of the model's URLs.
md5_hexdigest(url) ==
    CASE url = "http://a/1" -> "f9b968e7dbf1f88ba0cf909900bebfd6"
      [] url = "http://a/2" -> "1bba7108e99a7e1ef9aaf470a0da81d6"

url_to_filename(url) == md5_hexdigest(url) \o ".html"

Filenames == {url_to_filename(u) : u \in URLs}

\* File contents.
Absent    == <<"absent", "">>
Truncated == <<"truncated", "">>      \* opened 'wb', nothing (or part) written
Raw(url)  == <<"raw", url>>           \* response.content of url
Cleaned(c) == <<"clean", c[2]>>       \* Document(html).summary().encode()

Terminal == {"skipped", "saved", "error"}

VARIABLES
    args,              \* argparse.Namespace (with last_run_time set at line 141)
    HAVE_READABILITY,  \* module global, lines 24-28
    timezone,          \* the host's time.timezone
    sitemap,           \* what parse_sitemap returns for the sitemap URL
    lastRunFile,       \* .last_run.json: NoneVal (no file) or Some(last_run_time)
    mappingFile,       \* url_mapping.csv: NoneVal (no file) or <<rows>>
    files,             \* output_dir: filename -> content
    now,               \* time.time(), a logical clock: one unit per fetch_url call
    mainPc,            \* where main() is
    entries,           \* main's entries (after --limit)
    futures,           \* keys of main's futures dict: one per submitted task
    consumed,          \* futures as_completed has yielded to the loop
    url_map,           \* main's url_map dict, shared with every task
    task,              \* per submitted task: process_entry's frame and history
    worker,            \* per pool thread: the task it runs, 0 when idle
    runsLeft,          \* how many more times the program will be invoked
    prevRun            \* NoneVal in the first invocation, else Some(<<status>>)
                       \* of the previous invocation's tasks

vars == <<args, HAVE_READABILITY, timezone, sitemap, lastRunFile, mappingFile,
          files, now, mainPc, entries, futures, consumed, url_map, task, worker,
          runsLeft, prevRun>>

\* What no step of a running main() changes.
env == <<HAVE_READABILITY, timezone, sitemap, runsLeft, prevRun>>

\* ------------------------------------------------------------- inputs
\* The run's inputs are drawn from four families.  Each varies the inputs
\* one part of the program reads and holds the others at the defaults; the
\* parts do not interact: the limit acts before any entry is submitted, and
\* the skip decision of an entry reads nothing another entry writes.
Defaults == [force |-> FALSE, retries |-> 1, workers |-> 1, limit |-> NoneVal,
             readability |-> FALSE, last_run_time |-> NoneVal]

Limits    == {NoneVal} \cup {Some(n) : n \in 0..MaxLimit}
LastRuns  == {NoneVal} \cup {Some(t) : t \in 0..MaxLastRun}
Timezones == {0, 1}       \* time.timezone of the host: UTC, or one hour west
StartTime == MaxWall + 1     \* the clock when main() starts

\* Sitemaps of at most n entries, URLs from us, <lastmod>s from lms.
Catalogs(n, us, lms) == UNION {[1..k -> [url : us, lastmod : lms]] : k \in 0..n}

\* The skip decision: --force, the stored marker, the host's timezone, every
\* kind of <lastmod>.
SkipInputs ==
    /\ args \in {[Defaults EXCEPT !.force = f] : f \in BOOLEAN}
    /\ HAVE_READABILITY = TRUE
    /\ lastRunFile \in LastRuns
    /\ timezone \in Timezones
    /\ sitemap \in {<<[url |-> "http://a/1", lastmod |-> lm]>> : lm \in Lastmods}

\* The pool: up to MaxWorkers threads against sitemaps of up to MaxEntries
\* entries that may list a URL twice; an entry is either stale (skipped) or
\* undated (fetched).
PoolInputs ==
    /\ args \in {[Defaults EXCEPT !.workers = w] : w \in 1..MaxWorkers}
    /\ HAVE_READABILITY = TRUE
    /\ lastRunFile = Some(1)
    /\ timezone = 0
    /\ sitemap \in Catalogs(MaxEntries, URLs, {NoLastmod, Stamp(0, 0)})

\* The sitemaps the retry loop is run on: at most two undated entries.
RetrySitemaps == Catalogs(2, URLs, {NoLastmod})

\* The retry loop: every budget up to MaxRetries, --readability with and
\* without the library, one thread and two.
RetryInputs ==
    /\ args \in {[Defaults EXCEPT !.retries = r, !.readability = rd, !.workers = w] :
                    r \in 0..MaxRetries, rd \in BOOLEAN, w \in {1, 2}}
    /\ HAVE_READABILITY \in BOOLEAN
    /\ args.readability \/ HAVE_READABILITY
    /\ lastRunFile = NoneVal
    /\ timezone = 0
    /\ sitemap \in RetrySitemaps

\* --limit against sitemaps of every length.
LimitInputs ==
    /\ args \in {[Defaults EXCEPT !.limit = l] : l \in Limits}
    /\ HAVE_READABILITY = TRUE
    /\ lastRunFile = NoneVal
    /\ timezone = 0
    /\ sitemap \in Catalogs(MaxEntries, URLs, {NoLastmod})

\* <lastmod>s for two invocations in a row: long before the first one, and
\* (offset +0100) the instant one fetch after the first one started.
TwoRunLastmods == {Stamp(0, 0), Stamp(StartTime + 2, 1)}
TwoRunSitemaps == Catalogs(2, URLs, TwoRunLastmods)

\* The program invoked twice on the same sitemap, unforced, starting without
\* a marker.
TwoRunInputs ==
    /\ args = Defaults
    /\ HAVE_READABILITY = TRUE
    /\ lastRunFile = NoneVal
    /\ timezone = 0
    /\ sitemap \in TwoRunSitemaps

Init ==
    /\ \/ (SkipInputs \/ PoolInputs \/ RetryInputs \/ LimitInputs) /\ runsLeft = 0
       \/ TwoRunInputs /\ runsLeft = 1
    /\ prevRun = NoneVal
    /\ mappingFile = NoneVal
    /\ files = [f \in Filenames |-> Absent]
    /\ now = StartTime
    /\ mainPc = "start"
    /\ entries = <<>>
    /\ futures = {}
    /\ consumed = {}
    /\ url_map = <<>>
    /\ task = <<>>
    /\ worker = <<>>

\* ------------------------------------------------------------- main()
\* load_last_run: the stored last_run_time, None when the file is absent.
load_last_run(file) == file

\* entries[:limit] when args.limit is truthy (lines 144-145).
Truncate(parsed, limit) ==
    IF ~TruthyNum(limit) THEN parsed
    ELSE IF limit[1] > 0
         THEN SubSeq(parsed, 1, IF limit[1] < Len(parsed) THEN limit[1] ELSE Len(parsed))
         ELSE SubSeq(parsed, 1, IF Len(parsed) + limit[1] > 0 THEN Len(parsed) + limit[1] ELSE 0)

\* Lines 138-145: the sitemap is fetched and parsed, the limit applied.
Startup ==
    /\ mainPc = "start"
    /\ args' = [args EXCEPT !.last_run_time = load_last_run(lastRunFile)]
    /\ entries' = Truncate(sitemap, args.limit)
    /\ mainPc' = "submit"
    /\ UNCHANGED <<env, lastRunFile, mappingFile, files, now, futures, consumed,
                   url_map, task, worker>>

\* Mutant of StartupFails: the marker is saved before the sitemap is
\* fetched, so a failing start still moves it.
StartupFailsMarked ==
    /\ mainPc = "start"
    /\ mainPc' = "aborted"
    /\ lastRunFile' = Some(now)
    /\ UNCHANGED <<args, env, mappingFile, files, now, entries, futures,
                   consumed, url_map, task, worker>>

\* Lines 140-143 raising: makedirs, the sitemap fetch or ET.fromstring fails
\* and main() dies with the exception.
StartupFails ==
    /\ mainPc = "start"
    /\ mainPc' = "aborted"
    /\ UNCHANGED <<args, env, lastRunFile, mappingFile, files, now, entries, futures,
                   consumed, url_map, task, worker>>

\* A frame of process_entry that has not started, with its history counters.
NewTask == [pc |-> "queued", attempts |-> 0, content |-> Absent, xform |-> "none",
            nrun |-> 0, nfetch |-> 0, nfail |-> 0, nopen |-> 0, nwrite |-> 0]

\* Mutant of FutureKeys: the dict keyed by URL, so a URL listed twice keeps
\* one future.
FutureKeysByUrl(es) == {i \in 1..Len(es) : \A j \in (i + 1)..Len(es) : es[j].url # es[i].url}

\* The keys of the futures dict (lines 149-152): one Future per entry.
FutureKeys(es) == 1..Len(es)

\* Mutant of PoolSize: one thread more than configured.
PoolSizeOneMore(a) == a.workers + 1

\* ThreadPoolExecutor(max_workers=args.workers), line 148.
PoolSize(a) == a.workers

\* Lines 147-152: the pool is created and every entry submitted.
Submit ==
    /\ mainPc = "submit"
    /\ url_map' = <<>>
    /\ task' = [i \in 1..Len(entries) |-> NewTask]
    /\ worker' = [w \in 1..PoolSize(args) |-> 0]
    /\ futures' = FutureKeys(entries)
    /\ mainPc' = "collect"
    /\ UNCHANGED <<args, env, lastRunFile, mappingFile, files, now, entries, consumed>>

\* Mutant of AfterResult: an entry's error propagates out of future.result()
\* and ends main().
AfterResultRaises(status) == IF status = "error" THEN "aborted" ELSE "collect"

\* Where main() is after future.result() hands back (url, status), line 154:
\* process_entry returns its status, it never raises into the future.
AfterResult(status) == "collect"

\* Lines 153-155: as_completed yields a finished future, once.
Consume(i) ==
    /\ mainPc = "collect"
    /\ i \in futures \ consumed
    /\ task[i].pc \in Terminal
    /\ consumed' = consumed \cup {i}
    /\ mainPc' = AfterResult(task[i].pc)
    /\ UNCHANGED <<args, env, lastRunFile, mappingFile, files, now, entries,
                   futures, url_map, task, worker>>

AllTerminal == \A i \in DOMAIN task : task[i].pc \in Terminal

\* Mutant of MarkerTime: the time captured when main() started.
MarkerTimeAtStart == StartTime

\* The value save_last_run stores (line 82).
MarkerTime == now

\* Loop exhausted, the with-block joins the pool (shutdown(wait=True)),
\* then save_last_run (line 157).
SaveLastRun ==
    /\ mainPc = "collect"
    /\ consumed = futures
    /\ AllTerminal
    /\ lastRunFile' = Some(MarkerTime)
    /\ mainPc' = "write_mapping"
    /\ UNCHANGED <<args, env, mappingFile, files, now, entries, futures, consumed,
                   url_map, task, worker>>

\* Mutant of MappingRows: the file is opened for appending, earlier rows
\* stay unless this run saved the URL again.
MappingRowsAppended(old, m) ==
    IF old = NoneVal THEN m
    ELSE [u \in DOMAIN m \cup DOMAIN old[1] |-> IF u \in DOMAIN m THEN m[u] ELSE old[1][u]]

\* Lines 85-90: open(path, 'w') drops what the file held; one row per item
\* of url_map.
MappingRows(old, m) == m

\* write_mapping (line 158): the file is opened 'w' and rewritten from url_map.
WriteMapping ==
    /\ mainPc = "write_mapping"
    /\ mappingFile' = Some(MappingRows(mappingFile, url_map))
    /\ mainPc' = "done"
    /\ UNCHANGED <<args, env, lastRunFile, files, now, entries, futures, consumed,
                   url_map, task, worker>>

\* The program is invoked again after a completed run: a new process, args
\* parsed afresh (lines 138-139), the output directory as the last run left it.
NextRun ==
    /\ mainPc = "done"
    /\ runsLeft > 0
    /\ runsLeft' = runsLeft - 1
    /\ prevRun' = Some([i \in DOMAIN task |-> task[i].pc])
    /\ args' = [args EXCEPT !.last_run_time = NoneVal]
    /\ mainPc' = "start"
    /\ entries' = <<>>
    /\ futures' = {}
    /\ consumed' = {}
    /\ url_map' = <<>>
    /\ task' = <<>>
    /\ worker' = <<>>
    /\ UNCHANGED <<HAVE_READABILITY, timezone, sitemap, lastRunFile, mappingFile, files, now>>

\* ------------------------------------------------------- the thread pool
Running(i) == task[i].pc \in {"skipcheck", "fetch", "write"}

\* A pool thread takes a work item only when it is not running one.  Idle
\* threads are interchangeable: the lowest-numbered one takes the item.
CanTake(w) == worker[w] = 0 /\ \A v \in 1..(w - 1) : worker[v] # 0

\* The work queue is FIFO: the next item is the oldest one still queued.
NextQueued == CHOOSE i \in DOMAIN task :
                 /\ task[i].pc = "queued"
                 /\ \A j \in DOMAIN task : task[j].pc = "queued" => i <= j

Take(w) ==
    /\ mainPc = "collect"
    /\ w \in DOMAIN worker
    /\ CanTake(w)
    /\ \E i \in DOMAIN task : task[i].pc = "queued"
    /\ LET i == NextQueued IN
          /\ task' = [task EXCEPT ![i].pc = "skipcheck", ![i].nrun = @ + 1]
          /\ worker' = [worker EXCEPT ![w] = i]
    /\ UNCHANGED <<args, env, lastRunFile, mappingFile, files, now, mainPc, entries,
                   futures, consumed, url_map>>

\* The thread that ran task i returns to the queue.
Release(i) == [w \in DOMAIN worker |-> IF worker[w] = i THEN 0 ELSE worker[w]]

\* ------------------------------------------------------- process_entry
\* Lines 101-107: the skip decision.
ShouldSkip(a, lastmod, tz) ==
    /\ ~a.force
    /\ TruthyNum(a.last_run_time)
    /\ TruthyStr(lastmod)
    /\ strptime_ok(lastmod)
    /\ mktime(lastmod, tz) <= a.last_run_time[1]

\* Mutant of LoopOrError: `while True`, the loop never falls through to
\* line 135.
LoopForever(attempts) == "fetch"

\* After a decrement (or at loop entry): line 110's test, then line 135.
LoopOrError(attempts) == IF attempts > 0 THEN "fetch" ELSE "error"

\* return url, status
Finish(t, status) == [t EXCEPT !.pc = status]

SkipCheck(i) ==
    /\ i \in DOMAIN task
    /\ task[i].pc = "skipcheck"
    /\ IF ShouldSkip(args, entries[i].lastmod, timezone)
       THEN /\ task' = [task EXCEPT ![i] = Finish(@, "skipped")]
            /\ worker' = Release(i)
       ELSE LET next == LoopOrError(args.retries) IN
            /\ task' = [task EXCEPT ![i] =
                           IF next = "error" THEN Finish(@, "error")
                           ELSE [@ EXCEPT !.pc = "fetch", !.attempts = args.retries]]
            /\ worker' = IF next = "error" THEN Release(i) ELSE worker
    /\ UNCHANGED <<args, env, lastRunFile, mappingFile, files, now, mainPc, entries,
                   futures, consumed, url_map>>

\* Mutant of Except: the loop test is attempts >= 0.
ExceptOffByOne(t) ==
    LET left == t.attempts - 1 IN
    IF left >= 0 THEN [t EXCEPT !.pc = "fetch", !.attempts = left]
    ELSE [t EXCEPT !.attempts = left, !.pc = "error"]

\* Lines 132-134 then 110/135: one attempt is spent.
Except(t) ==
    LET left == t.attempts - 1 IN
    IF left > 0 THEN [t EXCEPT !.pc = "fetch", !.attempts = left]
    ELSE Finish([t EXCEPT !.attempts = left], "error")

\* fetch_url raises (line 112).
FetchFails(i) ==
    /\ i \in DOMAIN task
    /\ task[i].pc = "fetch"
    /\ task' = [task EXCEPT ![i] = Except([@ EXCEPT !.nfetch = @ + 1, !.nfail = @ + 1])]
    /\ worker' = IF task'[i].pc = "error" THEN Release(i) ELSE worker
    /\ now' = now + 1
    /\ UNCHANGED <<args, env, lastRunFile, mappingFile, files, mainPc, entries,
                   futures, consumed, url_map>>

\* Mutant of OnMissingReadability: the missing library raises into the
\* except clause instead of returning.
OnMissingReadabilityRaises(t) == Except(t)

\* Lines 115-117: log the error, return url, 'error'.
OnMissingReadability(t) == Finish(t, "error")

\* fetch_url returns, --readability without the library (lines 114-117).
MissingReadability(i) ==
    /\ i \in DOMAIN task
    /\ task[i].pc = "fetch"
    /\ args.readability /\ ~HAVE_READABILITY
    /\ task' = [task EXCEPT ![i] = OnMissingReadability([@ EXCEPT !.nfetch = @ + 1])]
    /\ worker' = IF task'[i].pc = "error" THEN Release(i) ELSE worker
    /\ now' = now + 1
    /\ UNCHANGED <<args, env, lastRunFile, mappingFile, files, mainPc, entries,
                   futures, consumed, url_map>>

\* Lines 114-124: what the transformer step can do to a fetched payload:
\* not requested ("none"), cleaned ("ok"), or Document() / summary() raised
\* ("failed").
Transforms == IF args.readability THEN {"ok", "failed"} ELSE {"none"}

\* Mutant of Transform: a raising transformer leaves no bytes to save.
TransformLosesBytes(raw, how) == IF how = "ok" THEN Cleaned(raw) ELSE Truncated

\* Lines 118-124: the bytes kept; content is reassigned only at line 122,
\* after summary() returned.
Transform(raw, how) == IF how = "ok" THEN Cleaned(raw) ELSE raw

\* fetch_url returns, the content is ready, open(dest, 'wb') succeeds: the
\* file is created or truncated (line 128).
FetchAndOpen(i) ==
    /\ i \in DOMAIN task
    /\ task[i].pc = "fetch"
    /\ ~(args.readability /\ ~HAVE_READABILITY)
    /\ \E how \in Transforms :
          task' = [task EXCEPT ![i].pc = "write",
                               ![i].content = Transform(Raw(entries[i].url), how),
                               ![i].xform = how,
                               ![i].nfetch = @ + 1, ![i].nopen = @ + 1]
    /\ files' = [files EXCEPT ![url_to_filename(entries[i].url)] = Truncated]
    /\ now' = now + 1
    /\ UNCHANGED <<args, env, lastRunFile, mappingFile, mainPc, entries,
                   futures, consumed, url_map, worker>>

\* fetch_url returns but open(dest, 'wb') raises (line 128).
OpenFails(i) ==
    /\ i \in DOMAIN task
    /\ task[i].pc = "fetch"
    /\ ~(args.readability /\ ~HAVE_READABILITY)
    /\ task' = [task EXCEPT ![i] = Except([@ EXCEPT !.nfetch = @ + 1])]
    /\ worker' = IF task'[i].pc = "error" THEN Release(i) ELSE worker
    /\ now' = now + 1
    /\ UNCHANGED <<args, env, lastRunFile, mappingFile, files, mainPc, entries,
                   futures, consumed, url_map>>

\* Mutant of MapSet: the row is not recorded.
MapSetDropped(m, url) == m

\* Line 130: url_map[url] = fname.
MapSet(m, url) == (url :> url_to_filename(url)) @@ m

\* f.write(content) and the close succeed; lines 130-131 follow.
WriteCompletes(i) ==
    /\ i \in DOMAIN task
    /\ task[i].pc = "write"
    /\ files' = [files EXCEPT ![url_to_filename(entries[i].url)] = task[i].content]
    /\ url_map' = MapSet(url_map, entries[i].url)
    /\ task' = [task EXCEPT ![i] = Finish([@ EXCEPT !.nwrite = @ + 1], "saved")]
    /\ worker' = Release(i)
    /\ UNCHANGED <<args, env, lastRunFile, mappingFile, now, mainPc, entries,
                   futures, consumed>>

\* f.write(content) or the close raises (line 129): the file stays as the
\* open left it, one attempt is spent.
WriteFails(i) ==
    /\ i \in DOMAIN task
    /\ task[i].pc = "write"
    /\ task' = [task EXCEPT ![i] = Except(@)]
    /\ worker' = IF task'[i].pc = "error" THEN Release(i) ELSE worker
    /\ UNCHANGED <<args, env, lastRunFile, mappingFile, files, now, mainPc, entries,
                   futures, consumed, url_map>>

Next ==
    \/ Startup
    \/ StartupFails
    \/ Submit
    \/ \E i \in 1..MaxEntries : Consume(i)
    \/ SaveLastRun
    \/ WriteMapping
    \/ NextRun
    \/ \E w \in DOMAIN worker : Take(w)
    \/ \E i \in 1..MaxEntries : SkipCheck(i)
    \/ \E i \in 1..MaxEntries : FetchFails(i)
    \/ \E i \in 1..MaxEntries : MissingReadability(i)
    \/ \E i \in 1..MaxEntries : FetchAndOpen(i)
    \/ \E i \in 1..MaxEntries : OpenFails(i)
    \/ \E i \in 1..MaxEntries : WriteCompletes(i)
    \/ \E i \in 1..MaxEntries : WriteFails(i)

Spec == Init /\ [][Next]_vars

\* One step of the task in slot i, whatever its outcome.
TaskStep(i) ==
    \/ SkipCheck(i)
    \/ FetchFails(i)
    \/ MissingReadability(i)
    \/ FetchAndOpen(i)
    \/ OpenFails(i)
    \/ WriteCompletes(i)
    \/ WriteFails(i)

MainStep == Startup \/ Submit \/ (\E i \in 1..MaxEntries : Consume(i)) \/ SaveLastRun \/ WriteMapping

\* The run under a fair scheduler: main() and every pool thread keep being
\* scheduled, and every fetch_url / file call returns (with either outcome).
FairSpec ==
    /\ Spec
    /\ WF_vars(MainStep)
    /\ WF_vars(\E w \in DOMAIN worker : Take(w))
    /\ \A i \in 1..MaxEntries : WF_vars(TaskStep(i))


\* ------------------------------------------------------------- claims
\* The instant a timestamp text denotes: its wall-clock fields minus its
\* UTC offset.
Instant(lm) == lm.wall - lm.off

\* The as_completed loop has ended and the pool is joined.
LoopDone == mainPc \in {"write_mapping", "done"}

\* Task i is past its skip decision.
Decided(i) == task[i].pc \notin {"queued", "skipcheck"}

SameUrl(i, j) == entries[i].url = entries[j].url

\* C1: when the loop ends every entry of the limit-truncated sitemap has run
\* exactly once and holds exactly one of skipped / saved / error, and the
\* loop has consumed as many outcomes as there are entries; no entry is
\* ever started twice.
C1_ExactlyOneOutcome ==
    /\ \A i \in DOMAIN task : task[i].nrun <= 1
    /\ LoopDone =>
          /\ entries = Truncate(sitemap, args.limit)
          /\ DOMAIN task = 1..Len(entries)
          /\ \A i \in DOMAIN task : task[i].nrun = 1 /\ task[i].pc \in Terminal
          /\ Cardinality(consumed) = Len(entries)

\* A sitemap listing one URL twice, run on two threads, one entry failed and
\* one saved.
C1_Witness ==
    /\ LoopDone
    /\ Len(entries) = 2 /\ SameUrl(1, 2)
    /\ args.workers = 2
    /\ task[1].pc = "error" /\ task[2].pc = "saved"

\* C2: an unforced run with a stored marker skips, without any fetch or
\* file write, every entry whose <lastmod> parses and denotes a time at or
\* before the marker.
C2_SkipSufficient ==
    \A i \in DOMAIN task :
        ( /\ Decided(i)
          /\ ~args.force
          /\ args.last_run_time # NoneVal
          /\ entries[i].lastmod.kind = "ts"
          /\ Instant(entries[i].lastmod) <= args.last_run_time[1] )
        => /\ task[i].pc = "skipped"
           /\ task[i].nfetch = 0
           /\ task[i].nopen = 0

\* C3: an entry is never skipped, and with a positive retry budget is
\* fetched at least once before it ends, when the run is forced, or no
\* marker is stored, or its <lastmod> is absent, or does not parse, or
\* denotes a time after the marker.
C3_SkipNecessary ==
    \A i \in DOMAIN task :
        ( /\ Decided(i)
          /\ \/ args.force
             \/ args.last_run_time = NoneVal
             \/ entries[i].lastmod.kind \in {"none", "bad"}
             \/ /\ entries[i].lastmod.kind = "ts"
                /\ Instant(entries[i].lastmod) > args.last_run_time[1] )
        => /\ task[i].pc # "skipped"
           /\ (args.retries >= 1 /\ task[i].pc \in Terminal) => task[i].nfetch >= 1

\* Task i was not skipped, has ended, and every fetch_url call it made raised.
AllFetchesFailed(i) ==
    /\ task[i].pc \in Terminal \ {"skipped"}
    /\ task[i].nfail = task[i].nfetch

\* C4 as written: with a budget N >= 1, an entry whose every fetch fails
\* makes exactly N fetches, ends in error, writes no file and its URL is
\* absent from the URL mapping.
C4_RetryExhaustionAsWritten ==
    \A i \in DOMAIN task :
        (args.retries >= 1 /\ AllFetchesFailed(i))
        => /\ task[i].nfetch = args.retries
           /\ task[i].pc = "error"
           /\ task[i].nopen = 0 /\ task[i].nwrite = 0
           /\ entries[i].url \notin DOMAIN url_map

\* C4 amended: ... and its URL is in the URL mapping only if another entry
\* listing the same URL was saved; while it runs it never exceeds N fetches.
C4_RetryExhaustion ==
    \A i \in DOMAIN task :
        /\ task[i].nfetch <= args.retries
        /\ (args.retries >= 1 /\ AllFetchesFailed(i))
           => /\ task[i].nfetch = args.retries
              /\ task[i].pc = "error"
              /\ task[i].nopen = 0 /\ task[i].nwrite = 0
              /\ entries[i].url \in DOMAIN url_map
                    => \E j \in DOMAIN task :
                          j # i /\ SameUrl(i, j) /\ task[j].pc = "saved"

\* Budget 2, both fetches failed, the loop is over.
C4_Witness ==
    /\ LoopDone
    /\ args.retries = 2
    /\ \E i \in DOMAIN task :
          /\ AllFetchesFailed(i)
          /\ task[i].nfetch = 2
          /\ entries[i].url \notin DOMAIN url_map

\* C5: the run marker and the mapping file change only in a step taken
\* with every submitted entry terminal and every outcome consumed, and the
\* marker stored is the clock at that step; so while any entry is not
\* terminal the stored marker is the one the run loaded.
C5_JoinBarrier ==
    /\ [][ (lastRunFile' # lastRunFile \/ mappingFile' # mappingFile)
             => /\ DOMAIN task = 1..Len(entries)
                /\ AllTerminal
                /\ consumed = 1..Len(entries)
                /\ lastRunFile' # lastRunFile => lastRunFile' = Some(now) ]_vars
    /\ []( (mainPc \in {"submit", "collect"} /\ ~(Len(task) = Len(entries) /\ AllTerminal))
             => lastRunFile = args.last_run_time )

\* A run of two entries ended, one in error, and stored a marker later than
\* its start time.
C5_Witness ==
    /\ mainPc = "done"
    /\ Len(entries) = 2
    /\ \E i \in DOMAIN task : task[i].pc = "error"
    /\ lastRunFile # NoneVal /\ lastRunFile[1] > StartTime
    /\ mappingFile # NoneVal

\* C6: at the end of the run a URL is a key of the mapping exactly when
\* some entry listing it was saved, its value is then url_to_filename(url),
\* and the mapping file written holds that mapping.
C6_MappingIffSaved ==
    LoopDone =>
        /\ \A u \in URLs :
              /\ u \in DOMAIN url_map
                    <=> \E i \in DOMAIN task : entries[i].url = u /\ task[i].pc = "saved"
              /\ u \in DOMAIN url_map => url_map[u] = md5_hexdigest(u) \o ".html"
        /\ mainPc = "done" => mappingFile = Some(url_map)

\* Two URLs, one saved and one failed: one row.
C6_Witness ==
    /\ mainPc = "done"
    /\ Len(entries) = 2 /\ ~SameUrl(1, 2)
    /\ task[1].pc = "saved" /\ task[2].pc = "error"
    /\ DOMAIN url_map = {entries[1].url}

\* C7: the mapping changes only in steps of the aggregation loop (a step
\* in which main() consumes an outcome).
C7_SingleWriter ==
    [][ url_map' # url_map => consumed' # consumed ]_vars

\* The tasks a pool thread has started and not finished.
Active == {i \in DOMAIN task : Running(i)}

\* C8: at most args.workers invocations are active, and a pool thread
\* leaves the entry it runs only when that entry is terminal.
C8_BoundedConcurrency ==
    /\ [](Cardinality(Active) <= args.workers)
    /\ [][ \A w \in DOMAIN worker :
              (worker[w] # 0 /\ worker'[w] # worker[w])
              => task'[worker[w]].pc \in Terminal ]_vars

\* One thread, two entries: the second is queued while the first runs.
C8_Witness ==
    /\ args.workers = 1
    /\ Len(task) = 2
    /\ task[1].pc = "fetch" /\ task[2].pc = "queued"

\* C9: once the entries are submitted the run ends with the marker and the
\* mapping file written, whatever the entries' outcomes; main() is never
\* aborted by an entry.
C9_PartialFailure ==
    /\ [](mainPc = "aborted" => task = <<>>)
    /\ [](mainPc = "collect" => <>(mainPc = "done" /\ mappingFile # NoneVal
                                     /\ lastRunFile # NoneVal /\ AllTerminal))

\* Every entry of a two-entry run ended in error and both files were written.
C9_Witness ==
    /\ mainPc = "done"
    /\ Len(task) = 2
    /\ \A i \in DOMAIN task : task[i].pc = "error"
    /\ mappingFile = Some(<<>>)
    /\ lastRunFile # args.last_run_time

\* C10: a saved entry has opened and written its file exactly once; a
\* skipped or failed entry has touched no file.
C10_FileWriteEffect ==
    \A i \in DOMAIN task :
        /\ task[i].pc = "saved" => task[i].nopen = 1 /\ task[i].nwrite = 1
        /\ task[i].pc \in {"skipped", "error"} => task[i].nopen = 0 /\ task[i].nwrite = 0


\* The artifact path of task i.
Dest(i) == url_to_filename(entries[i].url)

\* C11: with --readability and the library present, a transformer that
\* raises keeps the fetched bytes and goes on to the write in the same
\* attempt (no attempt spent, no second fetch), and when that write
\* completes the entry is saved and the file holds the fetched bytes.
C11_DegradeNotAbort ==
    /\ [](\A i \in DOMAIN task :
             (task[i].xform = "failed" /\ task[i].pc \in {"write", "saved"})
             => task[i].content = Raw(entries[i].url))
    /\ [][ \A i \in DOMAIN task :
              /\ (task[i].pc = "fetch" /\ task'[i].pc = "write" /\ task'[i].xform = "failed")
                 => /\ task'[i].attempts = task[i].attempts
                    /\ task'[i].nfetch = task[i].nfetch + 1
              /\ (task[i].pc = "write" /\ task[i].xform = "failed" /\ task'[i].pc = "saved")
                 => /\ files'[Dest(i)] = Raw(entries[i].url)
                    /\ task'[i].nfetch = task[i].nfetch
                    /\ task'[i].attempts = task[i].attempts ]_vars

\* Budget 1: one fetch, the transformer raised, the entry is saved with the
\* fetched bytes on disk.
C11_Witness ==
    /\ args.readability /\ HAVE_READABILITY /\ args.retries = 1
    /\ \E i \in DOMAIN task :
          /\ task[i].pc = "saved" /\ task[i].xform = "failed"
          /\ task[i].nfetch = 1
          /\ files[Dest(i)] = Raw(entries[i].url)

\* C12: with --readability and no library, no entry is ever saved, opens a
\* file or enters the mapping; an entry ends in error at its first fetch
\* that returns, and only its failed fetches have spent attempts.
C12_MissingCapability ==
    (args.readability /\ ~HAVE_READABILITY) =>
        /\ url_map = <<>>
        /\ \A i \in DOMAIN task :
              /\ task[i].pc # "saved"
              /\ task[i].nopen = 0 /\ task[i].nwrite = 0
              /\ task[i].nfetch <= task[i].nfail + 1
              /\ task[i].nfetch = task[i].nfail + 1 => task[i].pc = "error"
              /\ Decided(i) => task[i].attempts = args.retries - task[i].nfail

\* Budget 2: the first fetch failed, the second returned and the entry
\* ended in error with one attempt unspent.
C12_Witness ==
    /\ args.readability /\ ~HAVE_READABILITY /\ args.retries = 2
    /\ \E i \in DOMAIN task :
          /\ task[i].pc = "error"
          /\ task[i].nfetch = 2 /\ task[i].nfail = 1
          /\ task[i].attempts = 1


\* This invocation is the second one and has loaded the marker the first
\* one wrote.
SecondRun == prevRun # NoneVal /\ mainPc \notin {"start", "aborted"}

\* The <lastmod> parses and denotes an instant not after time t.
ParseableNotAfter(lm, t) == TruthyStr(lm) /\ strptime_ok(lm) /\ Instant(lm) <= t

\* Task i has not fetched and is skipped or still on its way to the decision.
SkippedUnfetched(i) ==
    /\ task[i].pc \in {"queued", "skipcheck", "skipped"}
    /\ task[i].nfetch = 0

\* C13: in a second, unforced run over the same sitemap, when every entry
\* has a parseable <lastmod> not after the marker the first run wrote, every
\* entry is skipped and none is fetched, whatever the first run's outcomes.
C13_IncrementalIdempotence ==
    ( /\ SecondRun
      /\ ~args.force
      /\ \A k \in DOMAIN sitemap :
            ParseableNotAfter(sitemap[k].lastmod, args.last_run_time[1]) )
    => \A i \in DOMAIN task : SkippedUnfetched(i)


\* C14: a start that fails ends main() at once: the step that aborts and
\* every step after it leave the marker, the mapping file and the output
\* files as they were, and no entry has been scheduled.
C14_FatalStartup ==
    /\ [](mainPc = "aborted" => (task = <<>> /\ futures = {} /\ entries = <<>>))
    /\ [][ (mainPc' = "aborted" \/ mainPc = "aborted")
           => /\ lastRunFile' = lastRunFile
              /\ mappingFile' = mappingFile
              /\ files' = files
              /\ now' = now ]_vars

\* The second invocation fails at its start: the marker and the mapping
\* the first one wrote are in place, nothing is scheduled.
C14_Witness ==
    /\ mainPc = "aborted"
    /\ prevRun # NoneVal /\ Len(sitemap) > 0
    /\ lastRunFile # NoneVal /\ mappingFile # NoneVal
    /\ task = <<>>


\* How many entries the claim has scheduled: min(L, length) under a limit L,
\* all of them without one.
FrontN(limit, n) == IF limit = NoneVal THEN n
                    ELSE IF limit[1] < n THEN limit[1] ELSE n

\* C15: once the sitemap is loaded, the entries scheduled are the first
\* min(L, length) of the sitemap when --limit L is given and all of them
\* otherwise, and under a limit the mapping file has at most L rows.
C15_LimitFrontN ==
    mainPc \notin {"start", "aborted"} =>
        /\ entries = SubSeq(sitemap, 1, FrontN(args.limit, Len(sitemap)))
        /\ mainPc # "submit" => DOMAIN task = 1..FrontN(args.limit, Len(sitemap))
        /\ (args.limit # NoneVal /\ mainPc = "done")
           => Cardinality(DOMAIN mappingFile[1]) <= args.limit[1]


\* The URLs this run saved.
SavedUrls == {entries[i].url : i \in {j \in DOMAIN task : task[j].pc = "saved"}}

\* C16: after a completed run the mapping file holds one row per URL saved
\* in this run and no other row, whatever the file held before.
C16_MappingOverwrites ==
    mainPc = "done" =>
        /\ mappingFile # NoneVal
        /\ DOMAIN mappingFile[1] = SavedUrls
        /\ \A u \in SavedUrls : mappingFile[1][u] = url_to_filename(u)

\* A URL saved (and mapped) by the first run is skipped by the second: the
\* second run's mapping file has no row for it.
C16_Witness ==
    /\ mainPc = "done"
    /\ prevRun # NoneVal
    /\ \E i \in DOMAIN task :
          /\ prevRun[1][i] = "saved"
          /\ task[i].pc = "skipped"
          /\ entries[i].url \notin DOMAIN mappingFile[1]


\* C17: no entry makes more fetch attempts than the budget, and the
\* remaining-attempts counter of an entry goes down only in a step in which
\* a fetch attempt of that entry fails; such a step leaves every other
\* entry's counter alone.
C17_AttemptBudget ==
    /\ [](\A i \in DOMAIN task : task[i].nfetch <= args.retries)
    /\ [][ \A i \in DOMAIN task \cap DOMAIN task' :
              task'[i].attempts < task[i].attempts
              => /\ task'[i].nfail = task[i].nfail + 1
                 /\ \A j \in (DOMAIN task \cap DOMAIN task') \ {i} :
                       task'[j].attempts = task[j].attempts ]_vars


\* Task i has its artifact file open for writing (lines 128-129).
Writing(i) == task[i].pc = "write"

\* C18: no two active tasks have the same artifact path open for writing at
\* the same time.
C18_NoConflictingWrites ==
    \A i \in DOMAIN task : \A j \in DOMAIN task :
        (i # j /\ Writing(i) /\ Writing(j)) => Dest(i) # Dest(j)

\* C19: a run that ends with entries in error still writes the marker, and
\* in the next unforced run every entry that ended in error before and has
\* a parseable <lastmod> not after that marker is skipped without a fetch.
C19_MarkerAdvancesDespiteErrors ==
    /\ (mainPc = "done" /\ \E i \in DOMAIN task : task[i].pc = "error")
       => lastRunFile # NoneVal
    /\ (SecondRun /\ ~args.force)
       => \A i \in DOMAIN task :
             ( /\ prevRun[1][i] = "error"
               /\ ParseableNotAfter(entries[i].lastmod, args.last_run_time[1]) )
             => SkippedUnfetched(i)


\* C20: under fair scheduling and returning calls, every run that has
\* loaded its sitemap reaches the end with the marker and the mapping
\* written and a terminal outcome for every entry; a task is in the retry
\* loop only with attempts left, and each return to the top of the loop
\* has lowered them.
C20_Termination ==
    /\ [](\A i \in DOMAIN task :
             task[i].pc \in {"fetch", "write"} => task[i].attempts \in 1..args.retries)
    /\ [][ \A i \in DOMAIN task \cap DOMAIN task' :
              (task[i].pc \in {"fetch", "write"} /\ task'[i].pc = "fetch" /\ task'[i] # task[i])
              => task'[i].attempts < task[i].attempts ]_vars
    /\ (mainPc = "submit")
          ~> ( /\ mainPc = "done"
               /\ DOMAIN task = DOMAIN entries /\ AllTerminal
               /\ lastRunFile # NoneVal /\ mappingFile # NoneVal )

\* One thread, two entries, budget 2: the run is over, the first entry
\* used up its budget, the second was saved after a failed attempt.
C20_Witness ==
    /\ mainPc = "done"
    /\ args.workers = 1 /\ args.retries = 2 /\ Len(task) = 2
    /\ task[1].pc = "error" /\ task[1].nfetch = 2
    /\ task[2].pc = "saved" /\ task[2].nfetch = 2

====
